---- MODULE Spec2Model ----
(***************************************************************************)
(* Model of src/inputSensitiveThrottle.ts: makeInputSensitiveThrottle.     *)
(*                                                                         *)
(* The combinator is modelled together with the two collaborators of its   *)
(* documented example: lodash memoize with the resolver                    *)
(* (...args) => args.map(String).join(":") and lodash debounce with        *)
(* wait 200 and { leading: true, trailing: false }.  Further              *)
(* specifications supply other collaborators: a trailing-edge debounce, a  *)
(* memoize whose cache entries are deleted, and a throttler that returns   *)
(* something that is not a function.  Time advances between               *)
(* tasks of the single-threaded host; timers that are due fire before the  *)
(* next task runs.  The debounce reads the clock only as the time since    *)
(* its last call, so that is what an instance keeps, counted up to Wait.   *)
(* The target is a counting function that the environment may make fail on *)
(* any invocation.                                                         *)
(***************************************************************************)
EXTENDS Integers, Sequences, FiniteSets, TLC

\* ------------------------------------------------------------------ bounds
MaxCalls == 3
MaxFails == 1
MaxEvicts == 1

\* --------------------------------------------------------------- constants
Wait == 200
TickMs == Wait \div 2
Wrappers == {1, 2}

\* JavaScript values: a type tag and the text String(x) produces.
Str(s) == [t |-> "string", v |-> s]
Num(s) == [t |-> "number", v |-> s]
\* The calls tried: ("a", 1) and ("a", "1") share the key "a:1".
ArgLists ==
    {<<Str("a"), Num("1")>>, <<Str("a"), Str("1")>>, <<Str("b"), Str("1")>>}

NoInst == 0
NoTime == 0 - 1

\* Values a call can produce: undefined, a target result, a target error.
Undefined == [t |-> "undefined", n |-> 0, seen |-> <<>>]
RetVal(n, params) == [t |-> "value", n |-> n, seen |-> params]
ErrVal(n, params) == [t |-> "error", n |-> n, seen |-> params]
Returned(val) == [kind |-> "return", value |-> val]
Thrown(val) == [kind |-> "throw", value |-> val]
\* The error of calling something that is not a function.
TypeError == [t |-> "TypeError", n |-> 0, seen |-> <<>>]

VARIABLES
    constructed,     \* wrapper -> makeInputSensitiveThrottle has returned it
    cache,           \* wrapper -> memoize cache: key -> throttle instance id
    insts,           \* throttle instances (debounced functions), by id
    throttlerCalls,  \* how many times throttler was called
    nCalls,          \* how many wrappedFunction calls were made
    nOps,            \* how many times a throttled operation was invoked
    nTarget,         \* how many times func was invoked
    nFails,          \* how many invocations of func have thrown
    throttler,       \* what the supplied throttler returns at present
    memoizerCalls,   \* wrapper -> how many times memoizer was called for it
    nEvicts,         \* how many cache entries the memoizer has dropped
    deferredErrors,  \* errors of func raised in a timer callback
    last,            \* the latest wrappedFunction call of the current task
    seen             \* wrapper, key -> what the caller has observed of that key

vars == <<constructed, cache, insts, throttlerCalls, nCalls, nOps, nTarget,
          nFails, throttler, memoizerCalls, nEvicts, deferredErrors, last, seen>>

\* ------------------------------------------------------------ collaborators
\* String(x): drops the type, so String(1) = String("1").
String(x) == x.v

RECURSIVE Join(_)
Join(strs) ==
    IF Len(strs) = 0 THEN ""
    ELSE IF Len(strs) = 1 THEN strs[1]
    ELSE strs[1] \o ":" \o Join(Tail(strs))

\* memoize resolver of the example: args.map(String).join(":")
memoSetup(args) == Join([i \in 1..Len(args) |-> String(args[i])])

Keys == {memoSetup(a) : a \in ArgLists}

\* The target: counts its invocations, reports the parameters it received,
\* and fails when the environment says so.
func(params, n, fails) ==
    IF fails THEN Thrown(ErrVal(n, params)) ELSE Returned(RetVal(n, params))

\* What throttler(fn) returns: debounce(fn, Wait, {leading: true, trailing:
\* false}) as in the example, debounce(fn, Wait) (trailing edge only), or
\* something that is not a function.
ThrottlerKinds == {"leading", "trailing", "broken"}

\* A fresh instance.  pending: a trailing-edge invocation is owed (lastArgs).
debounceSetup(boundArgs, w, key) ==
    [args |-> boundArgs, w |-> w, key |-> key,
     leading |-> throttler = "leading", trailing |-> throttler = "trailing",
     callable |-> throttler # "broken",
     sinceLastCall |-> NoTime, timerId |-> FALSE, pending |-> FALSE,
     result |-> Undefined]

\* Time passing: t ms more since a call that was since ms ago.
Elapsed(since, t) ==
    IF since = NoTime THEN NoTime
    ELSE IF since + t >= Wait THEN Wait ELSE since + t

\* debounced(): shouldInvoke, then leadingEdge when no timer is pending.
\* shouldInvoke: lastCallTime === undefined || time - lastCallTime >= wait.
shouldInvoke(inst) ==
    \/ inst.sinceLastCall = NoTime
    \/ inst.sinceLastCall >= Wait

\* leadingEdge starts the timer and invokes only with leading: true.
debounced(inst) ==
    LET isInvoking == shouldInvoke(inst) /\ ~inst.timerId /\ inst.leading
    IN  [invoke |-> isInvoking,
         inst |-> [inst EXCEPT !.sinceLastCall = 0, !.timerId = TRUE,
                               !.pending = inst.trailing]]

\* The timer of inst is due.
timerDue(inst) == inst.timerId /\ shouldInvoke(inst)

\* timerExpired -> trailingEdge: clears the timer and lastArgs; with
\* trailing: true and lastArgs set it invokes func (see Tick).
trailingInvokes(inst) == timerDue(inst) /\ inst.trailing /\ inst.pending

timerExpired(inst) ==
    IF timerDue(inst)
    THEN [inst EXCEPT !.timerId = FALSE, !.pending = FALSE]
    ELSE inst

\* ------------------------------------------------------------------ core
\* line 75: the closure () => func(args); the parameter list func receives.
wrapped(args) == <<args>>

\* lines 74-77: throttler(() => func(args)) for the args of this call.
makeThrottleFnForInput(args, w) == debounceSetup(args, w, memoSetup(args))

\* Variants of the memoized factory, each with one deliberate fault.
\* One throttle instance per wrapper, whatever the args.
throttleFnsCachedByInput_oneSlot(c, ins, w, args) ==
    LET key == CHOOSE k \in Keys : TRUE
        hit == c[w][key] # NoInst
        id == IF hit THEN c[w][key] ELSE Len(ins) + 1
    IN  [id |-> id,
         created |-> ~hit,
         cache |-> IF hit THEN c ELSE [c EXCEPT ![w][key] = id],
         insts |-> IF hit THEN ins
                   ELSE Append(ins, makeThrottleFnForInput(args, w))]

\* The factory is not memoized: every call builds a throttle instance.
throttleFnsCachedByInput_noReuse(c, ins, w, args) ==
    LET key == memoSetup(args)
        id == Len(ins) + 1
    IN  [id |-> id,
         created |-> TRUE,
         cache |-> [c EXCEPT ![w][key] = id],
         insts |-> Append(ins, makeThrottleFnForInput(args, w))]

\* A reused instance is re-bound to the args of the current call.
throttleFnsCachedByInput_rebind(c, ins, w, args) ==
    LET key == memoSetup(args)
        hit == c[w][key] # NoInst
        id == IF hit THEN c[w][key] ELSE Len(ins) + 1
    IN  [id |-> id,
         created |-> ~hit,
         cache |-> IF hit THEN c ELSE [c EXCEPT ![w][key] = id],
         insts |-> IF hit THEN [ins EXCEPT ![id].args = args]
                   ELSE Append(ins, makeThrottleFnForInput(args, w))]

\* One registry shared by every wrapper.
throttleFnsCachedByInput_global(c, ins, w, args) ==
    LET key == memoSetup(args)
        w0 == CHOOSE x \in Wrappers : TRUE
        hit == c[w0][key] # NoInst
        id == IF hit THEN c[w0][key] ELSE Len(ins) + 1
    IN  [id |-> id,
         created |-> ~hit,
         cache |-> IF hit THEN c ELSE [c EXCEPT ![w0][key] = id],
         insts |-> IF hit THEN ins
                   ELSE Append(ins, makeThrottleFnForInput(args, w))]

\* throttler is called on every call; its result is dropped on a cache hit.
throttleFnsCachedByInput_eager(c, ins, w, args) ==
    LET key == memoSetup(args)
        hit == c[w][key] # NoInst
        id == IF hit THEN c[w][key] ELSE Len(ins) + 1
    IN  [id |-> id,
         created |-> TRUE,
         cache |-> IF hit THEN c ELSE [c EXCEPT ![w][key] = id],
         insts |-> IF hit THEN ins
                   ELSE Append(ins, makeThrottleFnForInput(args, w))]

\* The core keeps the instances itself: a key the memoizer has dropped gets
\* its old instance back.
throttleFnsCachedByInput_sticky(c, ins, w, args) ==
    LET key == memoSetup(args)
        old == {i \in 1..Len(ins) : ins[i].w = w /\ ins[i].key = key}
        hit == old # {}
        id == IF hit THEN CHOOSE i \in old : \A j \in old : j <= i
              ELSE Len(ins) + 1
    IN  [id |-> id,
         created |-> ~hit,
         cache |-> [c EXCEPT ![w][key] = id],
         insts |-> IF hit THEN ins
                   ELSE Append(ins, makeThrottleFnForInput(args, w))]

\* lines 79, 82: the memoized factory, called with the call's args.
throttleFnsCachedByInput(c, ins, w, args) ==
    LET key == memoSetup(args)
        hit == c[w][key] # NoInst
        id == IF hit THEN c[w][key] ELSE Len(ins) + 1
    IN  [id |-> id,
         created |-> ~hit,
         cache |-> IF hit THEN c ELSE [c EXCEPT ![w][key] = id],
         insts |-> IF hit THEN ins
                   ELSE Append(ins, makeThrottleFnForInput(args, w))]

\* Variant: the call's args are forwarded to the throttled operation.
opArgs_forward(args) == args

\* line 83: throttleFnForInput() is called with no arguments ...
opArgs(args) == <<>>

\* Variant: the result of the throttled operation is not returned.
wrappedReturn_dropped(out) ==
    IF out.kind = "return" THEN Returned(Undefined) ELSE out

\* Variant: an error of the throttled operation is caught.
wrappedReturn_swallow(out) ==
    IF out.kind = "throw" THEN Returned(Undefined) ELSE out

\* ... and its outcome is the outcome of wrappedFunction.
wrappedReturn(out) == out

\* No call was made in the current task.
NoCall ==
    [seq |-> 0, w |-> 0, args |-> <<>>, key |-> "", id |-> NoInst,
     created |-> FALSE, prev |-> NoTime, prevId |-> NoInst, evicted |-> FALSE,
     invoked |-> FALSE,
     op |-> [seq |-> 0, id |-> NoInst, args |-> <<>>, out |-> Returned(Undefined)],
     target |-> [seq |-> 0, params |-> <<>>, out |-> Returned(Undefined)],
     out |-> Returned(Undefined)]

\* A key the caller has not used yet.
NotSeen ==
    [first |-> <<>>, id |-> NoInst, since |-> NoTime, failed |-> FALSE,
     evicted |-> FALSE, ret |-> Undefined]

\* Nothing has been built or called; the throttler is of the given kind.
Start(kind) ==
    /\ throttler = kind
    /\ memoizerCalls = [w \in Wrappers |-> 0]
    /\ nEvicts = 0
    /\ deferredErrors = 0

Fresh ==
    /\ constructed = [w \in Wrappers |-> FALSE]
    /\ cache = [w \in Wrappers |-> [k \in Keys |-> NoInst]]
    /\ insts = <<>>
    /\ throttlerCalls = 0
    /\ nCalls = 0
    /\ nOps = 0
    /\ nTarget = 0
    /\ nFails = 0
    /\ last = NoCall
    /\ seen = [w \in Wrappers |-> [k \in Keys |-> NotSeen]]

Init == Start("leading") /\ Fresh

\* Variant: the wrapper is built around a throttle instance made up front.
makeInputSensitiveThrottle_eager(w) ==
    /\ ~constructed[w]
    /\ constructed' = [constructed EXCEPT ![w] = TRUE]
    /\ cache' = [cache EXCEPT ![w] = [k \in Keys |-> NoInst]]
    /\ memoizerCalls' = [memoizerCalls EXCEPT ![w] = @ + 1]
    /\ insts' = Append(insts, makeThrottleFnForInput(<<>>, w))
    /\ throttlerCalls' = throttlerCalls + 1
    /\ UNCHANGED <<nCalls, nOps, nTarget, nFails, throttler, nEvicts,
                   deferredErrors, last, seen>>

\* lines 73-85: builds the factory, memoizes it, returns the wrapper.
makeInputSensitiveThrottle(w) ==
    /\ ~constructed[w]
    /\ constructed' = [constructed EXCEPT ![w] = TRUE]
    /\ cache' = [cache EXCEPT ![w] = [k \in Keys |-> NoInst]]
    /\ memoizerCalls' = [memoizerCalls EXCEPT ![w] = @ + 1]
    /\ UNCHANGED <<insts, throttlerCalls, nCalls, nOps, nTarget, nFails,
                   throttler, nEvicts, deferredErrors, last, seen>>

\* lines 81-84: one call of the wrapper w with args; fails says whether
\* func throws if it is invoked.
wrappedFunction(w, args, fails) ==
    /\ constructed[w]
    /\ nCalls < MaxCalls
    /\ LET r == throttleFnsCachedByInput(cache, insts, w, args)
           fn == r.insts[r.id]
           d == IF fn.callable THEN debounced(fn)
                ELSE [invoke |-> FALSE, inst |-> fn]
           n == nTarget + 1
           tout == func(wrapped(d.inst.args), n, fails)
           opOut == IF ~fn.callable THEN Thrown(TypeError)
                    ELSE IF d.invoke THEN tout
                    ELSE Returned(d.inst.result)
           inst2 == IF d.invoke /\ tout.kind = "return"
                    THEN [d.inst EXCEPT !.result = tout.value]
                    ELSE d.inst
           key == memoSetup(args)
           old == seen[w][key]
       IN  /\ fails => d.invoke /\ nFails < MaxFails
           /\ cache' = r.cache
           /\ insts' = [r.insts EXCEPT ![r.id] = inst2]
           /\ throttlerCalls' = throttlerCalls + (IF r.created THEN 1 ELSE 0)
           /\ nTarget' = nTarget + (IF d.invoke THEN 1 ELSE 0)
           /\ nFails' = nFails + (IF fails THEN 1 ELSE 0)
           /\ last' = [seq |-> nCalls + 1, w |-> w, args |-> args, key |-> key,
                       id |-> r.id, created |-> r.created,
                       prev |-> old.since, prevId |-> old.id,
                       evicted |-> old.evicted, invoked |-> d.invoke,
                       op |-> [seq |-> nOps + 1, id |-> r.id,
                               args |-> opArgs(args), out |-> opOut],
                       target |-> IF d.invoke
                                  THEN [seq |-> n, params |-> wrapped(d.inst.args),
                                        out |-> tout]
                                  ELSE NoCall.target,
                       out |-> wrappedReturn(opOut)]
           /\ seen' = [seen EXCEPT ![w][key] =
                         [first |-> IF old.first = <<>> THEN args ELSE old.first,
                          id |-> IF old.first = <<>> THEN r.id ELSE old.id,
                          since |-> 0,
                          evicted |-> FALSE,
                          failed |-> old.failed \/ (d.invoke /\ tout.kind = "throw"),
                          ret |-> IF d.invoke /\ tout.kind = "return"
                                  THEN tout.value ELSE old.ret]]
    /\ nCalls' = nCalls + 1
    /\ nOps' = nOps + 1
    /\ UNCHANGED <<constructed, throttler, memoizerCalls, nEvicts, deferredErrors>>

\* The task ends and the host clock advances by TickMs; timers that are
\* due run.  A trailing-edge timer invokes func from the timer callback:
\* its result is kept by the instance, its error goes to the host.
Tick ==
    LET aged == [i \in 1..Len(insts) |->
                    [insts[i] EXCEPT
                        !.sinceLastCall = Elapsed(insts[i].sinceLastCall, TickMs)]]
        due == {i \in 1..Len(insts) : trailingInvokes(aged[i])}
        seq(i) == nTarget + Cardinality({j \in due : j <= i})
    IN  \E failing \in SUBSET due :
            LET tout(i) == func(wrapped(aged[i].args), seq(i), i \in failing)
                ran(w, k) == {i \in due : aged[i].w = w /\ aged[i].key = k}
            IN  /\ nFails + Cardinality(failing) <= MaxFails
                /\ insts' = [i \in 1..Len(insts) |->
                                IF i \in due \ failing
                                THEN [timerExpired(aged[i]) EXCEPT
                                         !.result = tout(i).value]
                                ELSE timerExpired(aged[i])]
                /\ seen' = [w \in Wrappers |-> [k \in Keys |->
                              [seen[w][k] EXCEPT
                                 !.since = Elapsed(seen[w][k].since, TickMs),
                                 !.failed = @ \/ ran(w, k) \cap failing # {},
                                 !.ret = IF ran(w, k) \ failing # {}
                                         THEN tout(CHOOSE i \in ran(w, k) \ failing : TRUE).value
                                         ELSE @]]]
                /\ nTarget' = nTarget + Cardinality(due)
                /\ nFails' = nFails + Cardinality(failing)
                /\ deferredErrors' = deferredErrors + Cardinality(failing)
    /\ last' = NoCall
    /\ UNCHANGED <<constructed, cache, throttlerCalls, nCalls, nOps, throttler,
                   memoizerCalls, nEvicts>>

Next ==
    \/ \E w \in Wrappers : makeInputSensitiveThrottle(w)
    \/ \E w \in Wrappers, args \in ArgLists, fails \in BOOLEAN :
           wrappedFunction(w, args, fails)
    \/ Tick

Spec == Init /\ [][Next]_vars

\* The same program with throttler = (fn) => debounce(fn, Wait): the target
\* is invoked on the trailing edge, from the timer callback.
InitTrailing == Start("trailing") /\ Fresh

NextTrailing ==
    \/ \E w \in Wrappers : makeInputSensitiveThrottle(w)
    \/ \E w \in Wrappers, args \in ArgLists : wrappedFunction(w, args, FALSE)
    \/ Tick

SpecTrailing == InitTrailing /\ [][NextTrailing]_vars

\* The memoizer drops the entry of key k of wrapper w (cache.delete(key), or
\* a cache with an eviction policy).  The instance itself lives on.
Evict(w, k) ==
    /\ cache[w][k] # NoInst
    /\ nEvicts < MaxEvicts
    /\ cache' = [cache EXCEPT ![w][k] = NoInst]
    /\ nEvicts' = nEvicts + 1
    /\ seen' = [seen EXCEPT ![w][k].first = <<>>,
                            ![w][k].ret = Undefined,
                            ![w][k].evicted = TRUE]
    /\ UNCHANGED <<constructed, insts, throttlerCalls, nCalls, nOps, nTarget,
                   nFails, throttler, memoizerCalls, deferredErrors, last>>

\* The example's collaborators, with a memoizer that evicts; one wrapper.
NextEvict ==
    \/ makeInputSensitiveThrottle(1)
    \/ \E args \in ArgLists : wrappedFunction(1, args, FALSE)
    \/ Tick
    \/ \E k \in Keys : Evict(1, k)

SpecEvict == Init /\ [][NextEvict]_vars

\* A throttler that does not keep its contract: while it is broken it
\* returns something that is not a function, otherwise the example's
\* debounce.
InitBroken == Start("broken") /\ Fresh

ThrottlerTurns(kind) ==
    /\ throttler # kind
    /\ throttler' = kind
    /\ UNCHANGED <<constructed, cache, insts, throttlerCalls, nCalls, nOps,
                   nTarget, nFails, memoizerCalls, nEvicts, deferredErrors,
                   last, seen>>

NextBroken ==
    \/ makeInputSensitiveThrottle(1)
    \/ \E args \in ArgLists : wrappedFunction(1, args, FALSE)
    \/ Tick
    \/ \E kind \in {"leading", "broken"} : ThrottlerTurns(kind)

SpecBroken == InitBroken /\ [][NextBroken]_vars

TypeOK ==
    /\ nCalls \in 0..MaxCalls
    /\ nFails \in 0..MaxFails
    /\ throttlerCalls = Len(insts)
\* ---------------------------------------------------------------- helpers
\* A wrappedFunction call was made in the current task; last describes it.
Called == last.seq > 0

\* The step is a wrappedFunction call.
IsCallStep == nCalls' = nCalls + 1

\* The caller has used key k on wrapper w before.
Used(w, k) == seen[w][k].first # <<>>

\* The previous call of last's wrapper and key was less than Wait before it.
InWindow == last.prev # NoTime /\ last.prev < Wait

\* The throttle state the registry of wrapper w holds for key k.
SlotState(w, k) ==
    IF cache[w][k] = NoInst THEN <<>> ELSE <<insts[cache[w][k]]>>

\* Whether a call of wrapper w with args, made now, would reach func.
WouldInvoke(w, args) ==
    LET r == throttleFnsCachedByInput(cache, insts, w, args)
    IN  debounced(r.insts[r.id]).invoke

\* ------------------------------------------------------------------ C1
\* C1: a call with key A leaves the throttle state of every other key B of
\* that wrapper as it was and does not change whether a call with B would
\* reach the target; and a call whose own key is outside its window invokes
\* the target in that call, whatever calls with other keys came before (so
\* "a" then immediately "b" gives two target invocations).
C1_Frame ==
    IsCallStep =>
        \A w \in Wrappers, a \in ArgLists :
            (last'.w = w /\ last'.key # memoSetup(a)) =>
                /\ SlotState(w, memoSetup(a))' = SlotState(w, memoSetup(a))
                /\ WouldInvoke(w, a)' = WouldInvoke(w, a)

C1_NotSuppressed ==
    (/\ Called
     /\ ~InWindow
     /\ \E k \in Keys \ {last.key} : Used(last.w, k))
    => /\ last.invoked
       /\ last.target.seq = nTarget

C1_PerKeyIndependence == [][C1_Frame /\ C1_NotSuppressed']_vars

\* One key and at once another key on the same wrapper: two invocations.
C1_Witness ==
    /\ Called
    /\ nCalls = 2
    /\ nTarget = 2
    /\ last.invoked
    /\ \E k \in Keys \ {last.key} : seen[last.w][k].since = 0

\* ------------------------------------------------------------------ C2
\* C2: with the leading-edge debounce, a call whose wrapper and key were
\* called less than Wait ago reuses that key's instance and does not invoke
\* the target; a call whose wrapper and key were called before, but not
\* within the last Wait, reuses the instance and invokes the target.
C2_KeyReuse ==
    Called =>
        /\ InWindow =>
              /\ ~last.invoked
              /\ last.target.seq = 0
              /\ last.id = seen[last.w][last.key].id
        /\ (last.prev # NoTime /\ ~InWindow) =>
              /\ last.invoked
              /\ last.target.seq = nTarget
              /\ last.id = seen[last.w][last.key].id

\* One key three times: invoked, invoked again after the window, then
\* suppressed at once.
C2_Witness ==
    /\ Called
    /\ nCalls = 3
    /\ throttlerCalls = 1
    /\ nTarget = 2
    /\ ~last.invoked
    /\ last.prev = 0

\* ------------------------------------------------------------------ C3
\* C3: every invocation of the target made for a call of key k is the
\* closure over the args of the first call of that wrapper with key k,
\* also when the call that triggered it had different args.
C3_FirstCapture ==
    (Called /\ last.invoked) =>
        last.target.params = wrapped(seen[last.w][last.key].first)

\* A later call with the same key but other args reached the target.
C3_Witness ==
    /\ Called
    /\ last.invoked
    /\ last.args # seen[last.w][last.key].first

\* ------------------------------------------------------------------ C4
\* C4: what wrappedFunction returns is what the throttled operation
\* returned: the target's own return value of that invocation when the
\* target was invoked, and otherwise the debounce's value for a suppressed
\* call (undefined, or the result it kept from the latest successful
\* invocation for that key).
C4_PassThroughReturn ==
    Called =>
        /\ last.out.kind = "return" => last.out = last.op.out
        /\ (last.invoked /\ last.target.out.kind = "return") =>
              /\ last.out = last.target.out
              /\ last.out.value.n = nTarget
        /\ ~last.invoked =>
              /\ last.out.kind = "return"
              /\ last.out.value = seen[last.w][last.key].ret

\* A suppressed call returned the result kept from an earlier invocation.
C4_Witness ==
    /\ Called
    /\ ~last.invoked
    /\ last.out.value.t = "value"
    /\ last.out.value.n = nTarget

\* ------------------------------------------------------------------ C5
\* C5: a call with a new key that reaches the target passes it the call's
\* ordered argument list: as many parameters as the call had arguments,
\* the i-th parameter being the i-th argument.
C5_SameArgumentShape ==
    (Called /\ last.created /\ last.invoked) =>
        /\ Len(last.target.params) = Len(last.args)
        /\ \A p \in 1..Len(last.args) : last.target.params[p] = last.args[p]

\* ------------------------------------------------------------------ C6
\* C6: when a call of wrapper w with key A ends with the target's error,
\* every other (wrapper, key) keeps its throttle state, and a call with any
\* other key would reach the target after the failure exactly when it would
\* have before it; a later call with a key other than one that failed is
\* gated by the calls of its own key only and returns its own result.
C6_Frame ==
    (IsCallStep /\ last'.out.kind = "throw") =>
        \A w \in Wrappers, a \in ArgLists :
            (last'.w # w \/ last'.key # memoSetup(a)) =>
                /\ SlotState(w, memoSetup(a))' = SlotState(w, memoSetup(a))
                /\ WouldInvoke(w, a)' = WouldInvoke(w, a)

C6_AfterFailure ==
    (/\ Called
     /\ \E w \in Wrappers, k \in Keys :
           <<w, k>> # <<last.w, last.key>> /\ seen[w][k].failed)
    => /\ last.invoked <=> ~InWindow
       /\ last.invoked => last.out = last.target.out
       /\ ~last.invoked => last.out.value = seen[last.w][last.key].ret

C6_NoCrossTalkInFailure == [][C6_Frame /\ C6_AfterFailure']_vars

\* The target failed for one key; at once a call with another key on the
\* same wrapper reached the target and returned.
C6_Witness ==
    /\ Called
    /\ last.invoked
    /\ last.out.kind = "return"
    /\ \E k \in Keys \ {last.key} :
          seen[last.w][k].failed /\ seen[last.w][k].since = 0

\* ------------------------------------------------------------------ C7
\* C7: every wrapper has its own registry: a call on one wrapper resolves
\* to an instance that wrapper created, leaves the registry and instances
\* of the other wrapper unchanged, and is not suppressed by a call with the
\* same key on the other wrapper.
C7_OwnRegistry ==
    /\ \A w \in Wrappers, k \in Keys :
          cache[w][k] # NoInst =>
              /\ insts[cache[w][k]].w = w
              /\ \A w2 \in Wrappers \ {w} : cache[w2][k] # cache[w][k]
    /\ Called =>
          /\ insts[last.id].w = last.w
          /\ (\E w2 \in Wrappers \ {last.w} : Used(w2, last.key))
             => (last.invoked <=> ~InWindow)

C7_Frame ==
    IsCallStep =>
        \A w \in Wrappers :
            last'.w # w =>
                /\ cache'[w] = cache[w]
                /\ \A k \in Keys : SlotState(w, k)' = SlotState(w, k)

C7_IndependentWrappers == [][C7_Frame /\ C7_OwnRegistry']_vars

\* One wrapper with k and at once the other wrapper with k: two invocations
\* through two instances.
C7_Witness ==
    /\ Called
    /\ nCalls = 2
    /\ nTarget = 2
    /\ last.invoked
    /\ \E w2 \in Wrappers \ {last.w} :
          /\ seen[w2][last.key].since = 0
          /\ seen[w2][last.key].id # last.id

\* ------------------------------------------------------------------ C8
\* C8: a call in which the target is invoked and throws E ends by throwing
\* that E; a call ends by throwing only then; and the target is invoked at
\* most once per call (nothing is retried).
C8_ErrorPassThrough ==
    /\ nTarget <= nCalls
    /\ Called =>
          /\ (last.invoked /\ last.target.out.kind = "throw") =>
                last.out = last.target.out
          /\ last.out.kind = "throw" =>
                /\ last.invoked
                /\ last.target.out = last.out
                /\ last.out.value.t = "error"
          /\ last.invoked => last.target.seq = nTarget

\* A call ended with the error the target threw.
C8_Witness ==
    /\ Called
    /\ last.invoked
    /\ last.out.kind = "throw"
    /\ last.out = last.target.out

\* ------------------------------------------------------------------ C9
\* C9: throttler has been called once for each distinct (wrapper, key)
\* called so far; a call creates an instance exactly when it is the first
\* of its wrapper and key; every call uses the instance of that first call;
\* and that instance has seen every call of the key (the time since its
\* last call is the time since the key's latest call).
C9_RegistryInvariant ==
    /\ throttlerCalls = Cardinality({<<w, k>> \in Wrappers \X Keys : Used(w, k)})
    /\ Len(insts) = throttlerCalls
    /\ \A w \in Wrappers, k \in Keys :
          /\ Used(w, k) <=> cache[w][k] # NoInst
          /\ Used(w, k) =>
                /\ cache[w][k] = seen[w][k].id
                /\ insts[seen[w][k].id].sinceLastCall = seen[w][k].since
    /\ Called =>
          /\ last.created <=> last.prev = NoTime
          /\ last.id = seen[last.w][last.key].id

\* Two keys seen, one of them again later: two throttler calls, three calls.
C9_Witness ==
    /\ Called
    /\ nCalls = 3
    /\ throttlerCalls = 2
    /\ ~last.created
    /\ last.prev > 0

\* ----------------------------------------------------------------- C10
\* C10: the i-th invocation of a throttled operation is the one the i-th
\* wrappedFunction call resolved, it is made with no arguments, there is
\* exactly one per call, and a target invocation it makes is made within
\* the call.
C10_OrderAndSynchrony ==
    /\ nOps = nCalls
    /\ Called =>
          /\ last.seq = nCalls
          /\ last.op.seq = last.seq
          /\ last.op.id = last.id
          /\ last.op.args = <<>>
          /\ last.invoked => last.target.seq = nTarget

\* The third call invoked the third throttled operation, not the first one.
C10_Witness ==
    /\ Called
    /\ last.op.seq = 3
    /\ throttlerCalls > 1
    /\ last.op.id # 1
\* ----------------------------------------------------------------- C11
\* C11: with the trailing-edge debounce the target is never invoked inside
\* a wrappedFunction call and every error it raises is raised in a timer
\* callback; every call, also one whose key has had a deferred failure,
\* returns normally what the throttled operation returned (undefined, or
\* the result kept from the key's latest successful deferred invocation).
C11_Deferred ==
    /\ nTarget' # nTarget => ~IsCallStep
    /\ nFails' # nFails =>
          /\ ~IsCallStep
          /\ deferredErrors' - deferredErrors = nFails' - nFails

C11_CallReturns ==
    /\ nFails = deferredErrors
    /\ Called =>
          /\ ~last.invoked
          /\ last.out.kind = "return"
          /\ last.out = last.op.out
          /\ last.out.value = seen[last.w][last.key].ret

C11_DeferredFailure == [][C11_Deferred /\ C11_CallReturns']_vars

\* The deferred invocation for a key failed; a later call with that key
\* returned normally.
C11_Witness ==
    /\ Called
    /\ deferredErrors > 0
    /\ seen[last.w][last.key].failed
    /\ ~last.created
    /\ last.out.kind = "return"
\* ----------------------------------------------------------------- C12
\* C12: a registry entry changes only by being dropped by the memoizer, and
\* no instance is ever removed; the first call with a key after its entry
\* was dropped calls throttler again, gets a new instance bound to the args
\* of that call, and invokes the target in that call, also when the dropped
\* instance was called less than Wait ago.
C12_CoreKeeps ==
    /\ Len(insts') >= Len(insts)
    /\ \A w \in Wrappers, k \in Keys :
          (cache[w][k] # NoInst /\ cache'[w][k] # cache[w][k]) =>
              /\ nEvicts' = nEvicts + 1
              /\ cache'[w][k] = NoInst
    /\ (IsCallStep /\ last'.evicted) => throttlerCalls' = throttlerCalls + 1

C12_Restart ==
    (Called /\ last.evicted) =>
        /\ last.created
        /\ last.id # last.prevId
        /\ insts[last.id].args = last.args
        /\ last.invoked
        /\ last.target.params = wrapped(last.args)
        /\ last.out = last.target.out

C12_EvictionRestartsKey == [][C12_CoreKeeps /\ C12_Restart']_vars

\* A key was called, its entry dropped, and it was called again with other
\* args inside the old instance's window: the target ran with the new args.
C12_Witness ==
    /\ Called
    /\ last.evicted
    /\ last.prev # NoTime /\ last.prev < Wait
    /\ insts[last.prevId].timerId
    /\ last.args # insts[last.prevId].args
    /\ last.invoked
\* ----------------------------------------------------------------- C13
\* C13: building the wrapper calls neither the throttler nor the target,
\* whatever the throttler would return; a call whose key resolves to a
\* value that is not a function ends with the TypeError of invoking it,
\* without reaching the target; the memoizer keeps that value, so every
\* later call with the key ends the same way, also once the throttler
\* returns functions again; such a call leaves the other keys' entries
\* alone, and a call with a key whose own value is a function is gated and
\* returns as usual.
C13_AtMisuse ==
    /\ constructed' # constructed =>
          /\ throttlerCalls' = throttlerCalls
          /\ nTarget' = nTarget
          /\ \A w \in Wrappers : constructed[w] => constructed'[w]
    /\ (IsCallStep /\ last'.out = Thrown(TypeError)) =>
          \A w \in Wrappers, k \in Keys :
              (last'.w # w \/ last'.key # k) => SlotState(w, k)' = SlotState(w, k)

C13_SameWay ==
    Called =>
        /\ cache[last.w][last.key] = last.id
        /\ ~insts[last.id].callable =>
              /\ last.out = Thrown(TypeError)
              /\ ~last.invoked
        /\ insts[last.id].callable =>
              /\ last.out.kind = "return"
              /\ last.invoked <=> ~InWindow
              /\ last.invoked => last.out = last.target.out

C13_ViolationAtMisuse == [][C13_AtMisuse /\ C13_SameWay']_vars

\* A key got a non-function while the throttler was broken; the throttler
\* works again, another key was served, and the first key still fails.
C13_Witness ==
    /\ Called
    /\ throttler = "leading"
    /\ ~last.created
    /\ last.out = Thrown(TypeError)
    /\ \E k \in Keys \ {last.key} :
          /\ Used(last.w, k)
          /\ insts[seen[last.w][k].id].callable
          /\ seen[last.w][k].ret # Undefined
\* ----------------------------------------------------------------- C14
\* C14: building a wrapper calls the memoizer once and neither the
\* throttler, a throttled operation nor the target; the target is invoked
\* only in a wrappedFunction call, once, by the throttled operation of that
\* call's key when its gate allows it, with the args that instance is bound
\* to; so with the leading-edge debounce the target has never been invoked
\* more often than wrappedFunction was called.
C14_Construct ==
    constructed' # constructed =>
        /\ \A w \in Wrappers :
              memoizerCalls'[w] =
                  memoizerCalls[w] + (IF constructed'[w] /\ ~constructed[w] THEN 1 ELSE 0)
        /\ throttlerCalls' = throttlerCalls
        /\ Len(insts') = Len(insts)
        /\ nOps' = nOps
        /\ nTarget' = nTarget

C14_ThroughThrottle ==
    nTarget' # nTarget =>
        /\ IsCallStep
        /\ nTarget' = nTarget + 1
        /\ last'.invoked
        /\ \E w \in Wrappers, a \in ArgLists :
              last'.w = w /\ last'.args = a /\ WouldInvoke(w, a)
        /\ last'.target.params = wrapped(insts'[last'.id].args)

C14_Counts ==
    /\ nTarget <= nCalls
    /\ nTarget <= nOps
    /\ \A w \in Wrappers : memoizerCalls[w] = (IF constructed[w] THEN 1 ELSE 0)

C14_InertConstruction ==
    [][C14_Construct /\ C14_ThroughThrottle /\ C14_Counts']_vars

\* Both wrappers were built, each with one memoizer call; of three calls
\* two reached the target.
C14_Witness ==
    /\ \A w \in Wrappers : constructed[w] /\ memoizerCalls[w] = 1
    /\ nCalls = 3
    /\ nTarget = 2
    /\ throttlerCalls = 2
====
